---- MODULE Spec2Model ----
(***************************************************************************)
(* Model of the WRSR Workshop IO add-on (src/__init__.py): the steamcmd    *)
(* background workers, the completion pollers registered on the UI timer   *)
(* loop, the preferences state they share, the steamid64.txt store and the *)
(* Detect SteamID64 operator.                                              *)
(*                                                                         *)
(* Text is a sequence of one-character strings, so that strip(), the       *)
(* substring tests and the regular expression are computed, not assumed.   *)
(***************************************************************************)
EXTENDS Integers, Sequences, FiniteSets, TLC

\* ------------------------------------------------------------------ bounds
\* Operator invocations (Login / Create New Item) in one behaviour.
MaxJobs == 2
\* Output lines of free content the external processes print in one behaviour.
MaxOut == 2
\* Invocations of Detect SteamID64 in one behaviour.
MaxDetects == 1
\* Length of the texts handed to the identifier store on its own.
MaxLen == 3

\* --------------------------------------------------------- program constants
\* tail_limit = 50 (SteamCmdWorker.run, SteamCmdBuildWorker.run)
tail_limit == 50
\* the 15 of \d{15} in the identifier pattern
IdTailDigits == 15

\* ------------------------------------------------------------------- text
Digits == {"0","1","2","3","4","5","6","7","8","9"}

Letters ==
    {"a","b","c","d","e","f","g","h","i","j","k","l","m",
     "n","o","p","q","r","s","t","u","v","w","x","y","z",
     "A","B","C","D","E","F","G","H","I","J","K","L","M",
     "N","O","P","Q","R","S","T","U","V","W","X","Y","Z"}

\* \w of the re module (within the characters the model uses)
WordChars == Digits \cup Letters \cup {"_"}

\* the characters str.strip() / str.rstrip() remove (within the model's characters)
Whitespace == {" ", "\t", "\n", "\r", "\f"}

S_LoggedInOK ==
    <<"L","o","g","g","e","d"," ","i","n"," ","O","K">>

S_WaitingOK ==
    <<"W","a","i","t","i","n","g"," ","f","o","r"," ","u","s","e","r"," ","i","n","f","o",".",".",".","O","K">>

S_Accepted ==
    <<"A","c","c","e","p","t","e","d"," ","l","o","g","i","n"," ","f","o","r"," ">>

IdA ==
    <<"7","6","5","6","1","1","9","8","0","1","2","3","4","5","6","7","8">>

IdB ==
    <<"7","6","5","6","1","1","9","8","0","8","7","6","5","4","3","2","1">>

MsgNotFound ==
    <<"s","t","e","a","m","c","m","d"," ","n","o","t"," ","f","o","u","n","d",":"," ","s","t","e","a","m","c","m","d",".","e","x","e">>

MsgFailedStart ==
    <<"F","a","i","l","e","d"," ","t","o"," ","s","t","a","r","t"," ","s","t","e","a","m","c","m","d",":"," ","O","S","E","r","r","o","r">>

MsgLoginFailed ==
    <<"L","o","g","i","n"," ","d","i","d"," ","n","o","t"," ","c","o","m","p","l","e","t","e"," ","s","u","c","c","e","s","s","f","u","l","l","y",".">>

Min(S) == CHOOSE x \in S : \A y \in S : x <= y

\* str.rstrip(): trailing whitespace removed, one character at a time
RECURSIVE RStrip(_)
RStrip(s) ==
    IF s = <<>> THEN s
    ELSE IF s[Len(s)] \in Whitespace THEN RStrip(SubSeq(s, 1, Len(s) - 1))
    ELSE s

\* str.lstrip(): leading whitespace removed, one character at a time
RECURSIVE LStrip(_)
LStrip(s) ==
    IF s = <<>> THEN s
    ELSE IF Head(s) \in Whitespace THEN LStrip(Tail(s))
    ELSE s

\* str.strip()
Strip(s) == RStrip(LStrip(s))

\* `pat in s`
Contains(s, pat) ==
    \E i \in 1..(Len(s) - Len(pat) + 1) : SubSeq(s, i, i + Len(pat) - 1) = pat

\* "Logged in OK" in line or "Waiting for user info...OK" in line
IsLoginMarker(line) == Contains(line, S_LoggedInOK) \/ Contains(line, S_WaitingOK)

\* mutation of MatchAt: the pattern without its two \b
MatchAtNoBoundary(s, i) ==
    /\ i >= 1
    /\ i + IdTailDigits + 1 <= Len(s)
    /\ s[i] = "7"
    /\ s[i + 1] = "6"
    /\ \A k \in 2..(IdTailDigits + 1) : s[i + k] \in Digits

\* r"\b(76\d{15})\b" matches s at position i
MatchAt(s, i) ==
    /\ i >= 1
    /\ i + IdTailDigits + 1 <= Len(s)
    /\ s[i] = "7"
    /\ s[i + 1] = "6"
    /\ \A k \in 2..(IdTailDigits + 1) : s[i + k] \in Digits
    /\ (i = 1 \/ s[i - 1] \notin WordChars)
    /\ (i + IdTailDigits + 2 > Len(s) \/ s[i + IdTailDigits + 2] \notin WordChars)

MatchPositions(s) == {i \in 1..Len(s) : MatchAt(s, i)}

\* re.search(...): group(1) of the leftmost match, <<>> for no match (None)
SearchId(s) ==
    LET m == MatchPositions(s)
    IN  IF m = {} THEN <<>>
        ELSE SubSeq(s, Min(m), Min(m) + IdTailDigits + 1)

\* re.findall(...): the matches left to right (a match has a fixed length
\* and ends at a word boundary, so two matches never overlap)
RECURSIVE FindAllFrom(_, _)
FindAllFrom(s, from) ==
    LET later == {i \in MatchPositions(s) : i >= from}
    IN  IF later = {} THEN <<>>
        ELSE <<SubSeq(s, Min(later), Min(later) + IdTailDigits + 1)>>
             \o FindAllFrom(s, Min(later) + IdTailDigits + 2)

FindAll(s) == FindAllFrom(s, 1)

\* ------------------------------------------------------- identifier store
\* open(..., "w", newline=None).write(s): every "\n" becomes os.linesep
RECURSIVE EncodeNewlines(_, _)
EncodeNewlines(s, ls) ==
    IF s = <<>> THEN <<>>
    ELSE IF Head(s) = "\n" THEN ls \o EncodeNewlines(Tail(s), ls)
    ELSE <<Head(s)>> \o EncodeNewlines(Tail(s), ls)

\* open(..., "r", newline=None).read(): "\r\n" and a lone "\r" become "\n"
RECURSIVE DecodeNewlines(_)
DecodeNewlines(s) ==
    IF s = <<>> THEN <<>>
    ELSE IF Head(s) = "\r"
         THEN IF Len(s) >= 2 /\ s[2] = "\n"
              THEN <<"\n">> \o DecodeNewlines(Tail(Tail(s)))
              ELSE <<"\n">> \o DecodeNewlines(Tail(s))
    ELSE <<Head(s)>> \o DecodeNewlines(Tail(s))

\* the file steamid64.txt: absent, or present with the characters on disk
NoFile == [exists |-> FALSE, text |-> <<>>]

FileOf(chars) == [exists |-> TRUE, text |-> chars]

\* steamid64.strip() + "\n"
WrittenText(steamid64_arg) == Strip(steamid64_arg) \o <<"\n">>

\* write_steamid64_to_file, no exception: the file after p.write_text(...)
write_steamid64_to_file(steamid64_arg, ls) ==
    FileOf(EncodeNewlines(WrittenText(steamid64_arg), ls))

\* write_steamid64_to_file, exception caught: open() failed (file as it was)
\* or open() truncated the file and the write failed
FailedWrites(f) == {f, FileOf(<<>>)}

\* mutation of read_steamid64_from_file: the text is not stripped
ReadWithoutStrip(f) == IF f.exists THEN DecodeNewlines(f.text) ELSE <<>>

\* read_steamid64_from_file, no exception: p.read_text(...).strip()
read_steamid64_from_file(f) ==
    IF f.exists THEN Strip(DecodeNewlines(f.text)) ELSE <<>>

\* read_steamid64_from_file: every result the call can give on file f
ReadResults(f) ==
    IF f.exists THEN {read_steamid64_from_file(f), <<>>} ELSE {<<>>}

\* ---------------------------------------------------------------- workers
\* lines the external process can print (as read from proc.stdout)
L_Blank == <<"\n">>

L_LoggedIn == S_LoggedInOK \o <<"\n">>

L_AcceptedA == S_Accepted \o IdA \o <<" ", "\n">>

L_WaitingB == S_WaitingOK \o <<" ">> \o IdB \o <<"\n">>

Lines == {L_Blank, L_LoggedIn, L_AcceptedA, L_WaitingB}

ExitCodes == {0, 1}

Jobs == 1..MaxJobs

\* the dict objects bound to _worker_done: 0 is the class attribute
\* (line 200), j the dict the j-th operator invocation creates
Dicts == 0..MaxJobs

\* {"ok": False, "running": True}
NewDoneFlag == [ok |-> FALSE, running |-> TRUE]

\* mutation of LoginOk: the exit code is not looked at
LoginOkIgnoresExit(login_ok_v, rc) == login_ok_v

\* done_flag["ok"] of SteamCmdWorker.run
LoginOk(login_ok_v, rc) == login_ok_v /\ (rc = 0)

\* done_flag["ok"] of SteamCmdBuildWorker.run
BuildOk(rc) == (rc = 0)

\* mutation of ScmdMissing: the existence check is left out
ScmdNeverMissing(exists) == FALSE

\* `if not scmd.exists()`
ScmdMissing(exists) == ~exists

\* mutation of Persists: the identifier is stored only after a successful login
PersistsOnlyIfOk(candidate, ok) == candidate # <<>> /\ ok

\* `if steamid_candidate:` (line 143), which does not look at done_flag["ok"]
Persists(candidate, ok) == candidate # <<>>

\* mutation of TrimTail: the newest entry is dropped instead of the oldest
TrimTailDropsNewest(buf) ==
    IF Len(buf) > tail_limit THEN SubSeq(buf, 1, Len(buf) - 1) ELSE buf

\* out_buffer after `if len(out_buffer) > tail_limit: del out_buffer[0]`
TrimTail(buf) == IF Len(buf) > tail_limit THEN Tail(buf) ELSE buf

\* ----------------------------------------------------------------- detect
\* _default_steam_paths() returns three candidates (Path("") is ".", never dropped)
NumCandidates == 3

V_None == <<"{", "}">>

V_A == <<"\"">> \o IdA \o <<"\"">>

V_BA == <<"\"">> \o IdB \o <<"\"", " ", "\"">> \o IdA \o <<"\"">>

VdfTexts == {V_None, V_A, V_BA}

\* a candidate path: missing, raising on read, or readable text
CandFiles ==
    {[st |-> "missing", text |-> <<>>], [st |-> "unreadable", text |-> <<>>]}
    \cup {[st |-> "text", text |-> v] : v \in VdfTexts}

Hit(c) == c.st = "text" /\ FindAll(c.text) # <<>>

\* mutation of DetectFound: the last candidate with a match is taken
DetectFoundLastCandidate(cands) ==
    IF \E i \in 1..Len(cands) : Hit(cands[i])
    THEN FindAll(cands[CHOOSE i \in 1..Len(cands) :
                          Hit(cands[i]) /\ \A k \in (i + 1)..Len(cands) : ~Hit(cands[k])].text)[1]
    ELSE <<>>

\* `found` after the loop over the candidates
DetectFound(cands) ==
    IF \E i \in 1..Len(cands) : Hit(cands[i])
    THEN FindAll(cands[Min({i \in 1..Len(cands) : Hit(cands[i])})].text)[1]
    ELSE <<>>

\* what the three candidates can be, and every `found` they can give
CandLists == [1..NumCandidates -> CandFiles]

DetectResults == {DetectFound(cands) : cands \in CandLists}

\* ------------------------------------------------------------------ state
VARIABLES
    status_lines,       \* prefs._status_lines (one list object, shared)
    worker_done,        \* the dict objects: worker_done[d] = [ok, running]
    cur,                \* the dict prefs._worker_done is bound to
    steamid64,          \* prefs.steamid64
    file,               \* steamid64.txt
    prefBy,             \* history: who assigned steamid64 last, and whether that
                        \* replaced a non-empty value by another one
    fileBy,             \* history: whose call of write_steamid64_to_file came
                        \* last, "failed" if it raised inside
    scmd_exists,        \* bundled_steamcmd_path().exists()
    linesep,            \* os.linesep
    kind,               \* kind[j]: "none", "login", "build"
    wpc,                \* position of job j's worker thread
    proc,               \* job j's external process: "none","failed","running","exited"
    login_ok,           \* local login_ok of worker j
    steamid_candidate,  \* local steamid_candidate of worker j (<<>> is None)
    returncode,         \* proc.returncode of job j (-1 before exit)
    out,                \* lines worker j has read from proc.stdout
    wrote,              \* worker j's call of write_steamid64_to_file: "none","ok","failed"
    timer,              \* job j's poller: "none", "registered" (it returned 0.5 so
                        \* far), "stopped" (it returned None), "raised"
    ui,                 \* the UI thread: handler in progress, its job and local
    detect_result,      \* result of the last Detect SteamID64: "none","FINISHED","CANCELLED"
    jobsLeft,           \* operator invocations left
    linesLeft,          \* output lines left
    detectsLeft,        \* Detect invocations left
    tx,                 \* store or scanner alone: the text written / scanned
    rd,                 \* store or scanner alone: result of the last read / scan
    st                  \* "off"; store alone: "init", "wrote", "wfail", "read",
                        \* "roundtrip", "rfail"; scanner alone: "line",
                        \* "searched", "found"; Detect alone: "cands" (tx is
                        \* then the candidate files)

jobVars == <<kind, wpc, proc, login_ok, steamid_candidate, returncode, out, wrote>>

storeVars == <<tx, rd, st>>

envVars == <<scmd_exists, linesep>>

histVars == <<prefBy, fileBy>>

\* history: the writer `who` (of job j, 0 for none)
By(who, j) == [who |-> who, j |-> j]

\* history: an assignment of new to steamid64 by `who`
PrefBy(who, j, new) ==
    [who |-> who, j |-> j, over |-> (steamid64 # <<>> /\ steamid64 # new)]

vars ==
    <<status_lines, worker_done, cur, steamid64, file, histVars, envVars, jobVars,
      timer, ui, detect_result, jobsLeft, linesLeft, detectsLeft, storeVars>>

Idle == [pc |-> "idle", j |-> 0, val |-> <<>>]

Alive(j) == wpc[j] \notin {"idle", "done"}

\* state after register(): class attributes of WRSR_WorkshopPrefs, and
\* steamid64 synced with the file if it can be read
InitJobs ==
    /\ kind = [j \in Jobs |-> "none"]
    /\ wpc = [j \in Jobs |-> "idle"]
    /\ proc = [j \in Jobs |-> "none"]
    /\ login_ok = [j \in Jobs |-> FALSE]
    /\ steamid_candidate = [j \in Jobs |-> <<>>]
    /\ returncode = [j \in Jobs |-> -1]
    /\ out = [j \in Jobs |-> <<>>]
    /\ wrote = [j \in Jobs |-> "none"]
    /\ timer = [j \in Jobs |-> "none"]

InitPrefs ==
    /\ status_lines = <<>>
    /\ worker_done = [d \in Dicts |-> [ok |-> FALSE, running |-> FALSE]]
    /\ cur = 0
    /\ ui = Idle
    /\ detect_result = "none"
    /\ prefBy = [who |-> "init", j |-> 0, over |-> FALSE]
    /\ fileBy = By("init", 0)

Init ==
    /\ InitPrefs
    /\ InitJobs
    /\ scmd_exists \in BOOLEAN
    /\ linesep = <<"\r", "\n">>
    /\ file \in {NoFile, write_steamid64_to_file(IdA, linesep)}
    /\ steamid64 \in ReadResults(file)
    /\ \E pre \in {0, tail_limit} :
          /\ linesLeft = pre + MaxOut
          /\ jobsLeft = IF pre = 0 THEN MaxJobs ELSE 1
          /\ detectsLeft = IF pre = 0 THEN MaxDetects ELSE 0
    /\ tx = <<>>
    /\ rd = <<>>
    /\ st = "off"

\* ------------------------------------------------- operators (UI thread)
\* WRSR_OT_LoginSteamCmd.execute, line 287: prefs._status_lines.clear()
LoginClear ==
    /\ ui.pc = "idle"
    /\ jobsLeft > 0
    /\ status_lines' = <<>>
    /\ ui' = [pc |-> "login_start", j |-> cur + 1, val |-> <<>>]
    /\ UNCHANGED <<worker_done, cur, steamid64, file, histVars, envVars, jobVars, timer,
                   detect_result, jobsLeft, linesLeft, detectsLeft, storeVars>>

\* WRSR_OT_LoginSteamCmd.execute, lines 288-329: a new flags dict, the worker
\* thread started on the list and on that dict, the poller registered
LoginStart ==
    /\ ui.pc = "login_start"
    /\ cur' = ui.j
    /\ worker_done' = [worker_done EXCEPT ![ui.j] = NewDoneFlag]
    /\ kind' = [kind EXCEPT ![ui.j] = "login"]
    /\ wpc' = [wpc EXCEPT ![ui.j] = "start"]
    /\ timer' = [timer EXCEPT ![ui.j] = "registered"]
    /\ jobsLeft' = jobsLeft - 1
    /\ ui' = Idle
    /\ UNCHANGED <<status_lines, steamid64, file, histVars, envVars, proc, login_ok,
                   steamid_candidate, returncode, out, wrote, detect_result,
                   linesLeft, detectsLeft, storeVars>>

\* WRSR_OT_CreateNewItem.execute, line 370: prefs._status_lines.clear()
BuildClear ==
    /\ ui.pc = "idle"
    /\ jobsLeft > 0
    /\ status_lines' = <<>>
    /\ ui' = [pc |-> "build_start", j |-> cur + 1, val |-> <<>>]
    /\ UNCHANGED <<worker_done, cur, steamid64, file, histVars, envVars, jobVars, timer,
                   detect_result, jobsLeft, linesLeft, detectsLeft, storeVars>>

\* WRSR_OT_CreateNewItem.execute, lines 371-411: a new flags dict, the manifest
\* written, the worker thread started, the poller registered
BuildStart ==
    /\ ui.pc = "build_start"
    /\ cur' = ui.j
    /\ worker_done' = [worker_done EXCEPT ![ui.j] = NewDoneFlag]
    /\ kind' = [kind EXCEPT ![ui.j] = "build"]
    /\ wpc' = [wpc EXCEPT ![ui.j] = "start"]
    /\ timer' = [timer EXCEPT ![ui.j] = "registered"]
    /\ jobsLeft' = jobsLeft - 1
    /\ ui' = Idle
    /\ UNCHANGED <<status_lines, steamid64, file, histVars, envVars, proc, login_ok,
                   steamid_candidate, returncode, out, wrote, detect_result,
                   linesLeft, detectsLeft, storeVars>>

\* WRSR_OT_CreateNewItem.execute, line 386 raising: vdf_path.write_text fails,
\* execute ends with the new dict bound and neither worker nor poller
BuildStartFails ==
    /\ ui.pc = "build_start"
    /\ cur' = ui.j
    /\ worker_done' = [worker_done EXCEPT ![ui.j] = NewDoneFlag]
    /\ kind' = [kind EXCEPT ![ui.j] = "build"]
    /\ jobsLeft' = jobsLeft - 1
    /\ ui' = Idle
    /\ UNCHANGED <<status_lines, steamid64, file, histVars, envVars, wpc, proc, login_ok,
                   steamid_candidate, returncode, out, wrote, timer,
                   detect_result, linesLeft, detectsLeft, storeVars>>

\* ------------------------------------------------------- worker threads
\* run(), lines 86-90 / 156-160: the executable is missing
WorkerNotFound(j) ==
    /\ wpc[j] = "start"
    /\ ScmdMissing(scmd_exists)
    /\ status_lines' = Append(status_lines, MsgNotFound)
    /\ worker_done' = [worker_done EXCEPT ![j].ok = FALSE]
    /\ wpc' = [wpc EXCEPT ![j] = "done"]
    /\ UNCHANGED <<cur, steamid64, file, histVars, envVars, kind, proc, login_ok,
                   steamid_candidate, returncode, out, wrote, timer, ui,
                   detect_result, jobsLeft, linesLeft, detectsLeft, storeVars>>

\* run(), lines 101-115 / 162-174: subprocess.Popen raises
WorkerPopenFails(j) ==
    /\ wpc[j] = "start"
    /\ ~ScmdMissing(scmd_exists)
    /\ status_lines' = Append(status_lines, MsgFailedStart)
    /\ worker_done' = [worker_done EXCEPT ![j].ok = FALSE]
    /\ proc' = [proc EXCEPT ![j] = "failed"]
    /\ wpc' = [wpc EXCEPT ![j] = "done"]
    /\ UNCHANGED <<cur, steamid64, file, histVars, envVars, kind, login_ok,
                   steamid_candidate, returncode, out, wrote, timer, ui,
                   detect_result, jobsLeft, linesLeft, detectsLeft, storeVars>>

\* run(), lines 101-120 / 162-176: the process is started
WorkerPopen(j) ==
    /\ wpc[j] = "start"
    /\ ~ScmdMissing(scmd_exists)
    /\ proc' = [proc EXCEPT ![j] = "running"]
    /\ wpc' = [wpc EXCEPT ![j] = "read"]
    /\ UNCHANGED <<status_lines, worker_done, cur, steamid64, file, histVars, envVars, kind,
                   login_ok, steamid_candidate, returncode, out, wrote, timer,
                   ui, detect_result, jobsLeft, linesLeft, detectsLeft, storeVars>>

\* the lines a process may print next: blank lines while more than MaxOut
\* lines are left, any line of Lines after that
AvailLines == IF linesLeft > MaxOut THEN {L_Blank} ELSE Lines

\* run(), lines 122-125 / 177-179: the next line is read, stripped, appended
WorkerReadLine(j) ==
    /\ wpc[j] = "read"
    /\ linesLeft > 0
    /\ \E line \in AvailLines :
          /\ out' = [out EXCEPT ![j] = Append(out[j], line)]
          /\ status_lines' = Append(status_lines, RStrip(line))
    /\ linesLeft' = linesLeft - 1
    /\ wpc' = [wpc EXCEPT ![j] = "trim"]
    /\ UNCHANGED <<worker_done, cur, steamid64, file, histVars, envVars, kind, proc, login_ok,
                   steamid_candidate, returncode, wrote, timer, ui,
                   detect_result, jobsLeft, detectsLeft, storeVars>>

\* the local `line` of worker j after line.rstrip()
CurLine(j) == RStrip(out[j][Len(out[j])])

\* login_ok after lines 130-131
NextLoginOk(old, line) == IF IsLoginMarker(line) THEN TRUE ELSE old

\* mutation of NextCandidate: a candidate already found is kept
NextCandidateKeepsFirst(old, line) ==
    IF old = <<>> /\ SearchId(line) # <<>> THEN SearchId(line) ELSE old

\* steamid_candidate after lines 134-136
NextCandidate(old, line) == IF SearchId(line) # <<>> THEN SearchId(line) ELSE old

\* run(), lines 126-136 / 180-181: the oldest line dropped over tail_limit,
\* and, in a login worker, the line scanned
WorkerTrim(j) ==
    /\ wpc[j] = "trim"
    /\ status_lines' = TrimTail(status_lines)
    /\ IF kind[j] = "login"
       THEN /\ login_ok' = [login_ok EXCEPT ![j] = NextLoginOk(login_ok[j], CurLine(j))]
            /\ steamid_candidate' =
                  [steamid_candidate EXCEPT
                      ![j] = NextCandidate(steamid_candidate[j], CurLine(j))]
       ELSE UNCHANGED <<login_ok, steamid_candidate>>
    /\ wpc' = [wpc EXCEPT ![j] = "read"]
    /\ UNCHANGED <<worker_done, cur, steamid64, file, histVars, envVars, kind, proc,
                   returncode, out, wrote, timer, ui, detect_result, jobsLeft,
                   linesLeft, detectsLeft, storeVars>>

\* run(), lines 138-143 / 183-184: the stream ends, the process exits, ok is set
WorkerExit(j) ==
    /\ wpc[j] = "read"
    /\ \E rc \in ExitCodes :
          /\ returncode' = [returncode EXCEPT ![j] = rc]
          /\ worker_done' =
                [worker_done EXCEPT
                    ![j].ok = IF kind[j] = "login" THEN LoginOk(login_ok[j], rc)
                              ELSE BuildOk(rc)]
    /\ proc' = [proc EXCEPT ![j] = "exited"]
    /\ wpc' = [wpc EXCEPT
                 ![j] = IF kind[j] = "login"
                             /\ Persists(steamid_candidate[j], worker_done'[j].ok)
                        THEN "write_file" ELSE "done"]
    /\ UNCHANGED <<status_lines, cur, steamid64, file, histVars, envVars, kind, login_ok,
                   steamid_candidate, out, wrote, timer, ui, detect_result,
                   jobsLeft, linesLeft, detectsLeft, storeVars>>

\* run(), line 144: write_steamid64_to_file(steamid_candidate)
WorkerWriteFile(j) ==
    /\ wpc[j] = "write_file"
    /\ \/ /\ file' = write_steamid64_to_file(steamid_candidate[j], linesep)
          /\ wrote' = [wrote EXCEPT ![j] = "ok"]
          /\ fileBy' = By("worker", j)
       \/ /\ file' \in FailedWrites(file)
          /\ wrote' = [wrote EXCEPT ![j] = "failed"]
          /\ fileBy' = By("failed", j)
    /\ wpc' = [wpc EXCEPT ![j] = "set_pref"]
    /\ UNCHANGED <<status_lines, worker_done, cur, steamid64, prefBy, envVars, kind, proc,
                   login_ok, steamid_candidate, returncode, out, timer, ui,
                   detect_result, jobsLeft, linesLeft, detectsLeft, storeVars>>

\* run(), line 145: self.prefs_ref.steamid64 = steamid_candidate
WorkerSetPref(j) ==
    /\ wpc[j] = "set_pref"
    /\ steamid64' = steamid_candidate[j]
    /\ prefBy' = PrefBy("worker", j, steamid_candidate[j])
    /\ wpc' = [wpc EXCEPT ![j] = "done"]
    /\ UNCHANGED <<status_lines, worker_done, cur, file, fileBy, envVars, kind, proc,
                   login_ok, steamid_candidate, returncode, out, wrote, timer,
                   ui, detect_result, jobsLeft, linesLeft, detectsLeft, storeVars>>

WorkerStep(j) ==
    \/ WorkerNotFound(j)
    \/ WorkerPopenFails(j)
    \/ WorkerPopen(j)
    \/ WorkerReadLine(j)
    \/ WorkerTrim(j)
    \/ WorkerExit(j)
    \/ WorkerWriteFile(j)
    \/ WorkerSetPref(j)

\* ------------------------------------------- completion pollers (UI thread)
\* `prefs._worker_done.get("running") and not worker.is_alive()`, with the
\* dict prefs._worker_done is bound to now and the worker of the poller's job
PollCond(j) == worker_done[cur].running /\ ~Alive(j)

\* the poller returns None ("stopped") or raises: the timer is not rescheduled
PollEnds(j, how) ==
    /\ timer' = [timer EXCEPT ![j] = how]
    /\ ui' = Idle

\* _check_done / _check, lines 326 / 409: return 0.5
PollKeep(j) ==
    /\ ui.pc = "idle"
    /\ timer[j] = "registered"
    /\ ~PollCond(j)
    /\ UNCHANGED <<status_lines, worker_done, cur, steamid64, file, histVars, envVars, jobVars,
                   timer, ui, detect_result, jobsLeft, linesLeft, detectsLeft,
                   storeVars>>

\* _check_done, lines 309-311 and 318-325: ok is false
LoginPollFailed(j) ==
    /\ ui.pc = "idle"
    /\ timer[j] = "registered"
    /\ kind[j] = "login"
    /\ PollCond(j)
    /\ ~worker_done[cur].ok
    /\ worker_done' = [worker_done EXCEPT ![cur].running = FALSE]
    /\ status_lines' = Append(status_lines, MsgLoginFailed)
    /\ PollEnds(j, "stopped")
    /\ UNCHANGED <<cur, steamid64, file, histVars, envVars, jobVars, detect_result, jobsLeft,
                   linesLeft, detectsLeft, storeVars>>

\* _check_done, lines 309-314 and 320-325: ok is true, steamid64 already set
LoginPollOk(j) ==
    /\ ui.pc = "idle"
    /\ timer[j] = "registered"
    /\ kind[j] = "login"
    /\ PollCond(j)
    /\ worker_done[cur].ok
    /\ steamid64 # <<>>
    /\ worker_done' = [worker_done EXCEPT ![cur].running = FALSE]
    /\ PollEnds(j, "stopped")
    /\ UNCHANGED <<status_lines, cur, steamid64, file, histVars, envVars, jobVars,
                   detect_result, jobsLeft, linesLeft, detectsLeft, storeVars>>

\* _check_done, lines 309-314: ok is true, steamid64 is empty
LoginPollOkEmpty(j) ==
    /\ ui.pc = "idle"
    /\ timer[j] = "registered"
    /\ kind[j] = "login"
    /\ PollCond(j)
    /\ worker_done[cur].ok
    /\ steamid64 = <<>>
    /\ worker_done' = [worker_done EXCEPT ![cur].running = FALSE]
    /\ ui' = [pc |-> "poll_readfile", j |-> j, val |-> <<>>]
    /\ UNCHANGED <<status_lines, cur, steamid64, file, histVars, envVars, jobVars, timer,
                   detect_result, jobsLeft, linesLeft, detectsLeft, storeVars>>

\* _check_done, lines 315-316: existing = read_steamid64_from_file()
PollReadFile ==
    /\ ui.pc = "poll_readfile"
    /\ \E existing \in ReadResults(file) :
          IF existing # <<>>
          THEN /\ ui' = [pc |-> "poll_setpref", j |-> ui.j, val |-> existing]
               /\ UNCHANGED timer
          ELSE PollEnds(ui.j, "stopped")
    /\ UNCHANGED <<status_lines, worker_done, cur, steamid64, file, histVars, envVars, jobVars,
                   detect_result, jobsLeft, linesLeft, detectsLeft, storeVars>>

\* _check_done, lines 317-325: prefs.steamid64 = existing
PollSetPref ==
    /\ ui.pc = "poll_setpref"
    /\ steamid64' = ui.val
    /\ prefBy' = PrefBy("poller", ui.j, ui.val)
    /\ PollEnds(ui.j, "stopped")
    /\ UNCHANGED <<status_lines, worker_done, cur, file, fileBy, envVars, jobVars,
                   detect_result, jobsLeft, linesLeft, detectsLeft, storeVars>>

\* _check, lines 401-403: running cleared, then worker.new_item_id, an
\* attribute SteamCmdBuildWorker never sets, raises AttributeError; the host
\* drops a timer whose function raised
BuildPollDone(j) ==
    /\ ui.pc = "idle"
    /\ timer[j] = "registered"
    /\ kind[j] = "build"
    /\ PollCond(j)
    /\ worker_done' = [worker_done EXCEPT ![cur].running = FALSE]
    /\ PollEnds(j, "raised")
    /\ UNCHANGED <<status_lines, cur, steamid64, file, histVars, envVars, jobVars,
                   detect_result, jobsLeft, linesLeft, detectsLeft, storeVars>>

\* one invocation of job j's poller begins
PollTick(j) ==
    \/ PollKeep(j)
    \/ LoginPollFailed(j)
    \/ LoginPollOk(j)
    \/ LoginPollOkEmpty(j)
    \/ BuildPollDone(j)

\* ------------------------------------------------ Detect SteamID64 (UI thread)
\* WRSR_OT_DetectSteamID.execute, lines 354-355, with `found` as the loop
\* left it: a match, steamid64 assigned
DetectHit(found) ==
    /\ ui.pc = "idle"
    /\ detectsLeft > 0
    /\ found # <<>>
    /\ steamid64' = found
    /\ prefBy' = PrefBy("detect", 0, found)
    /\ ui' = [pc |-> "detect_write", j |-> 0, val |-> found]
    /\ detectsLeft' = detectsLeft - 1
    /\ UNCHANGED <<status_lines, worker_done, cur, file, fileBy, envVars, jobVars, timer,
                   detect_result, jobsLeft, linesLeft, storeVars>>

\* WRSR_OT_DetectSteamID.execute, lines 338-355, on any candidate files
DetectFind == \E found \in DetectResults : DetectHit(found)

\* WRSR_OT_DetectSteamID.execute, lines 356-358: the file written, FINISHED
DetectWrite ==
    /\ ui.pc = "detect_write"
    /\ \/ /\ file' = write_steamid64_to_file(ui.val, linesep)
          /\ fileBy' = By("detect", 0)
       \/ /\ file' \in FailedWrites(file)
          /\ fileBy' = By("failed", 0)
    /\ detect_result' = "FINISHED"
    /\ ui' = Idle
    /\ UNCHANGED <<status_lines, worker_done, cur, steamid64, prefBy, envVars, jobVars, timer, jobsLeft, linesLeft, detectsLeft, storeVars>>

\* WRSR_OT_DetectSteamID.execute, lines 338-353 and 359-361: no match, CANCELLED
DetectMiss(found) ==
    /\ ui.pc = "idle"
    /\ detectsLeft > 0
    /\ found = <<>>
    /\ detect_result' = "CANCELLED"
    /\ detectsLeft' = detectsLeft - 1
    /\ UNCHANGED <<status_lines, worker_done, cur, steamid64, file, histVars, envVars, jobVars,
                   timer, ui, jobsLeft, linesLeft, storeVars>>

\* the same, on any candidate files
DetectNone == \E found \in DetectResults : DetectMiss(found)

\* ------------------------------------------------------------ specification
Next ==
    \/ LoginClear
    \/ LoginStart
    \/ BuildClear
    \/ BuildStart
    \/ BuildStartFails
    \/ \E j \in Jobs : WorkerNotFound(j)
    \/ \E j \in Jobs : WorkerPopenFails(j)
    \/ \E j \in Jobs : WorkerPopen(j)
    \/ \E j \in Jobs : WorkerReadLine(j)
    \/ \E j \in Jobs : WorkerTrim(j)
    \/ \E j \in Jobs : WorkerExit(j)
    \/ \E j \in Jobs : WorkerWriteFile(j)
    \/ \E j \in Jobs : WorkerSetPref(j)
    \/ \E j \in Jobs : PollKeep(j)
    \/ \E j \in Jobs : LoginPollFailed(j)
    \/ \E j \in Jobs : LoginPollOk(j)
    \/ \E j \in Jobs : LoginPollOkEmpty(j)
    \/ \E j \in Jobs : BuildPollDone(j)
    \/ PollReadFile
    \/ PollSetPref
    \/ DetectFind
    \/ DetectWrite
    \/ DetectNone

Spec == Init /\ [][Next]_vars

\* ------------------------------------------ the identifier store on its own
\* characters of the texts handed to write_steamid64_to_file
StoreChars == {"7", "a", " ", "\n", "\r"}

\* the non-empty texts of at most MaxLen characters
Texts == UNION {[1..n -> StoreChars] : n \in 1..MaxLen}

\* no job and no Detect: write_steamid64_to_file is called once on the text
\* tx, on either platform's os.linesep and on any file left by an earlier
\* call, and read_steamid64_from_file once, before or after it
StoreInit ==
    /\ InitPrefs
    /\ InitJobs
    /\ scmd_exists = TRUE
    /\ linesep \in {<<"\n">>, <<"\r", "\n">>}
    /\ file \in {NoFile, FileOf(<<"7", "\r", "\n">>)}
    /\ steamid64 = <<>>
    /\ jobsLeft = 0
    /\ linesLeft = 0
    /\ detectsLeft = 0
    /\ tx \in Texts
    /\ rd = <<>>
    /\ st = "init"

storeFrame ==
    <<status_lines, worker_done, cur, steamid64, histVars, envVars, jobVars, timer,
      ui, detect_result, jobsLeft, linesLeft, detectsLeft>>

\* write_steamid64_to_file(tx), lines 42-45, no exception
StoreWrite ==
    /\ st = "init"
    /\ file' = write_steamid64_to_file(tx, linesep)
    /\ st' = "wrote"
    /\ UNCHANGED <<tx, rd, storeFrame>>

\* write_steamid64_to_file(tx), lines 42-47, exception caught and printed
StoreWriteFails ==
    /\ st = "init"
    /\ file' \in FailedWrites(file)
    /\ st' = "wfail"
    /\ UNCHANGED <<tx, rd, storeFrame>>

\* read_steamid64_from_file(), lines 49-53 and 56, no exception; "roundtrip"
\* when the call before it was a write that did not fail
StoreRead ==
    /\ st \in {"init", "wrote", "wfail"}
    /\ rd' = read_steamid64_from_file(file)
    /\ st' = IF st = "wrote" THEN "roundtrip" ELSE "read"
    /\ UNCHANGED <<tx, file, storeFrame>>

\* read_steamid64_from_file(), lines 51-55, exception caught
StoreReadFails ==
    /\ st \in {"init", "wrote", "wfail"}
    /\ file.exists
    /\ rd' = <<>>
    /\ st' = "rfail"
    /\ UNCHANGED <<tx, file, storeFrame>>

StoreNext ==
    \/ StoreWrite
    \/ StoreWriteFails
    \/ StoreRead
    \/ StoreReadFails

StoreSpec == StoreInit /\ [][StoreNext]_vars

\* ------------------------------------------- the identifier scanner on its own
\* a line is a core between a prefix and a suffix: the cores are an identifier,
\* 17 characters that are not all digits, and 16 digits; the prefixes and
\* suffixes put separators, letters, digits and a second identifier around it
ScanCores ==
    {IdA,
     SubSeq(IdA, 1, 9) \o <<"x">> \o SubSeq(IdA, 11, IdTailDigits + 2),
     SubSeq(IdA, 1, IdTailDigits + 1)}

ScanPrefixes ==
    {<<>>, <<" ">>, <<"a">>, <<"_">>, <<"7">>, <<":">>, <<"i", "d", "=">>, IdB \o <<" ">>}

ScanSuffixes ==
    {<<>>, <<" ">>, <<"x">>, <<"_">>, <<"8">>, <<".">>, <<"\n">>, <<",", " ">> \o IdB}

ScanLines == {p \o c \o x : p \in ScanPrefixes, c \in ScanCores, x \in ScanSuffixes}

\* no job and no Detect: one text tx is scanned once, as a line of a login
\* worker or as the text of a loginusers.vdf candidate
ScanInit ==
    /\ InitPrefs
    /\ InitJobs
    /\ scmd_exists = TRUE
    /\ linesep = <<"\n">>
    /\ file = NoFile
    /\ steamid64 = <<>>
    /\ jobsLeft = 0
    /\ linesLeft = 0
    /\ detectsLeft = 0
    /\ tx \in ScanLines
    /\ rd = <<>>
    /\ st = "line"

\* SteamCmdWorker.run, lines 123 and 134-136: line.rstrip(), re.search, group(1)
ScanSearch ==
    /\ st = "line"
    /\ rd' = SearchId(RStrip(tx))
    /\ st' = "searched"
    /\ UNCHANGED <<tx, file, storeFrame>>

\* WRSR_OT_DetectSteamID.execute, lines 346-349: re.findall, m[0] if m
ScanFindAll ==
    /\ st = "line"
    /\ rd' = IF FindAll(tx) # <<>> THEN FindAll(tx)[1] ELSE <<>>
    /\ st' = "found"
    /\ UNCHANGED <<tx, file, storeFrame>>

ScanNext ==
    \/ ScanSearch
    \/ ScanFindAll

ScanSpec == ScanInit /\ [][ScanNext]_vars

\* ------------------------------------------------ Detect SteamID64 on its own
\* no job: Detect SteamID64 is invoked once, on the candidate files tx
DetectInit ==
    /\ InitPrefs
    /\ InitJobs
    /\ scmd_exists = TRUE
    /\ linesep = <<"\r", "\n">>
    /\ file \in {NoFile, write_steamid64_to_file(IdB, linesep)}
    /\ steamid64 \in ReadResults(file)
    /\ jobsLeft = 0
    /\ linesLeft = 0
    /\ detectsLeft = MaxDetects
    /\ tx \in CandLists
    /\ rd = <<>>
    /\ st = "cands"

\* WRSR_OT_DetectSteamID.execute, lines 338-355, on the candidate files tx
CandFind == st = "cands" /\ DetectHit(DetectFound(tx))

\* WRSR_OT_DetectSteamID.execute, lines 338-353 and 359-361, on the files tx
CandNone == st = "cands" /\ DetectMiss(DetectFound(tx))

DetectNext ==
    \/ CandFind
    \/ DetectWrite
    \/ CandNone

DetectSpec == DetectInit /\ [][DetectNext]_vars

\* ================================================================== claims
Range(s) == {s[i] : i \in 1..Len(s)}

\* job j's operator ran (its flags dict exists)
Invoked(j) == kind[j] # "none"

\* C1: the status log never holds more than tail_limit (50) entries, whoever
\* appended them (a worker or a completion poller); stated for the states
\* in which no worker is between its append and its trim.
C1_LogWithinCapacity ==
    (\A j \in Jobs : wpc[j] # "trim") => Len(status_lines) <= tail_limit

\* the job-specific success predicate over the lines the process printed
SuccessPredicate(j) ==
    IF kind[j] = "login"
    THEN \E i \in 1..Len(out[j]) :
            Contains(out[j][i], S_LoggedInOK) \/ Contains(out[j][i], S_WaitingOK)
    ELSE TRUE

\* C2: once the process of job j has exited, the ok flag of that job's dict
\* is (success predicate) and (exit code = 0).
C2_OkFlag ==
    \A j \in Jobs :
        returncode[j] # -1 =>
            (worker_done[j].ok <=> (SuccessPredicate(j) /\ returncode[j] = 0))

\* C2 witness: a login worker has finished with a success marker printed and
\* a nonzero exit code, and ok is false.
C2_Witness ==
    \E j \in Jobs :
        /\ kind[j] = "login"
        /\ wpc[j] = "done"
        /\ returncode[j] = 1
        /\ SuccessPredicate(j)
        /\ ~worker_done[j].ok

\* C3 as claimed: with the executable missing no worker thread is ever alive.
C3_NoThreadWhenMissing ==
    ~scmd_exists => \A j \in Jobs : ~Alive(j)

\* C3 amended: with the executable missing, the worker thread of every job is
\* started but launches no process, reads no line, writes no identifier and
\* leaves ok false; once it has ended the log of its job holds the "steamcmd
\* not found" line; and the running flag is false only after a poller ended.
C3_MissingExecutable ==
    ~scmd_exists =>
        \A j \in Jobs :
            /\ proc[j] = "none"
            /\ out[j] = <<>>
            /\ returncode[j] = -1
            /\ wrote[j] = "none"
            /\ ~worker_done[j].ok
            /\ (wpc[j] = "done" /\ cur = j /\ ui.pc \notin {"login_start", "build_start"})
                   => MsgNotFound \in Range(status_lines)
            /\ (Invoked(j) /\ ~worker_done[j].running)
                   => \E k \in Jobs : timer[k] \in {"stopped", "raised"} /\ wpc[k] = "done"

\* C3 witness: the executable is missing, the current job's worker has ended,
\* its message is in the log and its poller has cleared the running flag.
C3_Witness ==
    /\ ~scmd_exists
    /\ \E j \in Jobs :
          /\ cur = j
          /\ wpc[j] = "done"
          /\ MsgNotFound \in Range(status_lines)
          /\ ~worker_done[j].ok
          /\ ~worker_done[j].running
          /\ timer[j] = "stopped"

\* C4: at most one background worker thread is alive.
C4_OneWorkerAlive == Cardinality({j \in Jobs : Alive(j)}) <= 1

\* C5: while a started worker thread is alive, the running flag read through
\* the preferences object is true.
C5_RunningWhileAlive ==
    \A j \in Jobs : Alive(j) => worker_done[cur].running

\* C6: an invocation of job j's poller that finds the running flag set and
\* its worker finished clears the flag and returns None (it stops, it does
\* not raise); any other invocation leaves the flags and the log unchanged
\* and keeps the timer registered.
C6_PollerContract ==
    [][\A j \in Jobs :
          (ui.pc = "idle" /\ timer[j] = "registered" /\ PollTick(j)) =>
              IF PollCond(j)
              THEN /\ ~worker_done'[cur].running
                   /\ timer'[j] # "raised"
                   /\ (ui'.pc = "idle" => timer'[j] = "stopped")
              ELSE /\ timer'[j] = "registered"
                   /\ UNCHANGED <<worker_done, status_lines>>]_vars

\* the program can take no step by itself: no handler is running on the UI
\* thread, every started worker has ended, and every registered poller
\* would return 0.5; only the user invoking an operator changes the state
Quiescent ==
    /\ ui.pc = "idle"
    /\ \A j \in Jobs : ~Alive(j)
    /\ \A j \in Jobs : timer[j] = "registered" => ~PollCond(j)

\* C7: every started job comes to an end, its worker dead and its poller
\* stopped for good: when the program can take no further step by itself,
\* no started job is left with its poller still scheduled.
C7_EveryJobCompletes ==
    Quiescent =>
        \A j \in Jobs :
            wpc[j] # "idle" => (wpc[j] = "done" /\ timer[j] \in {"stopped", "raised"})

\* the identifiers the scanner finds in the lines worker j has read, in order
RECURSIVE IdsIn(_)
IdsIn(lines) ==
    IF lines = <<>> THEN <<>>
    ELSE LET id == SearchId(RStrip(Head(lines)))
         IN  IF id # <<>> THEN <<id>> \o IdsIn(Tail(lines)) ELSE IdsIn(Tail(lines))

\* C8: when a login worker whose process exited with code 0, whose output
\* held a matching identifier and whose write of the identifier file went
\* through finishes, the identifier file holds exactly an identifier its output
\* held and steamid64 equals it.
C8_IdentifierPersisted ==
    [][\A j \in Jobs :
          (/\ Alive(j)
           /\ wpc'[j] = "done"
           /\ kind[j] = "login"
           /\ returncode[j] = 0
           /\ wrote[j] = "ok"
           /\ IdsIn(out[j]) # <<>>)
          => /\ steamid64' \in Range(IdsIn(out[j]))
             /\ read_steamid64_from_file(file') = steamid64']_vars

\* C9: a login job none of whose output lines holds a matching identifier
\* never writes the identifier file and never changes a non-empty steamid64,
\* neither in its worker nor in its poller; a build job never writes the file.
C9_NoIdentifierNoWrite ==
    \A j \in Jobs :
        /\ (\/ wrote[j] # "none"
            \/ fileBy.j = j
            \/ (prefBy.who = "worker" /\ prefBy.j = j))
              => (kind[j] = "login" /\ IdsIn(out[j]) # <<>>)
        /\ (kind[j] = "login" /\ prefBy.j = j /\ prefBy.over)
              => IdsIn(out[j]) # <<>>

\* C10 as claimed: a read that follows a successful write of tx returns tx
\* stripped; a read of a missing or unreadable file returns the empty text.
C10_RoundTrip ==
    /\ st = "roundtrip" => rd = Strip(tx)
    /\ (st = "read" /\ ~file.exists) => rd = <<>>
    /\ st = "rfail" => rd = <<>>

\* C10 amended: the same, for the texts whose stripped form holds no
\* carriage return.
C10_RoundTripNoCR ==
    /\ (st = "roundtrip" /\ "\r" \notin Range(Strip(tx))) => rd = Strip(tx)
    /\ (st = "read" /\ ~file.exists) => rd = <<>>
    /\ st = "rfail" => rd = <<>>

\* C10 witness: a text with surrounding whitespace and an inner line feed has
\* been written and read back under "\r\n" line endings.
C10_Witness ==
    /\ st = "roundtrip"
    /\ linesep = <<"\r", "\n">>
    /\ tx \in {<<" ", "\n", "7">>, <<"7", "\n", "a">>}
    /\ rd = Strip(tx)

\* where a run of 17 digits that begins with "76" starts in s
SubstringPositions(s) ==
    {i \in 1..(Len(s) - IdTailDigits - 1) :
        /\ s[i] = "7"
        /\ s[i + 1] = "6"
        /\ \A k \in 0..(IdTailDigits + 1) : s[i + k] \in Digits}

\* where an identifier that is a whole word starts in s: a run of 17 digits
\* that begins with "76", with no letter, digit or underscore next to it
WholeWordPositions(s) ==
    {i \in SubstringPositions(s) :
        /\ (i = 1 \/ s[i - 1] \notin WordChars)
        /\ (i + IdTailDigits + 2 > Len(s) \/ s[i + IdTailDigits + 2] \notin WordChars)}

IdAt(s, i) == SubSeq(s, i, i + IdTailDigits + 1)

\* C11 as claimed: a scanned line with exactly one 17-digit substring that
\* starts with "76" gives exactly that substring; a line with none gives no
\* identifier.
C11_ScanSubstring ==
    st \in {"searched", "found"} =>
        /\ Cardinality(SubstringPositions(tx)) = 1
              => \A i \in SubstringPositions(tx) : rd = IdAt(tx, i)
        /\ SubstringPositions(tx) = {} => rd = <<>>

\* C11 amended: a scanned line with exactly one such substring that is a
\* whole word gives exactly that substring; a line with no such whole word
\* (in particular one with no such substring) gives no identifier.
C11_ScanWholeWord ==
    st \in {"searched", "found"} =>
        /\ Cardinality(WholeWordPositions(tx)) = 1
              => \A i \in WholeWordPositions(tx) : rd = IdAt(tx, i)
        /\ WholeWordPositions(tx) = {} => rd = <<>>

\* C11 witness: the line "id=76561198012345678." has been scanned by the
\* worker's search and the identifier between "=" and "." extracted.
C11_Witness ==
    /\ st = "searched"
    /\ tx = <<"i", "d", "=">> \o IdA \o <<".">>
    /\ WholeWordPositions(tx) = {4}
    /\ rd = IdA

\* what job j's worker last did to the store: it assigned steamid64 last, it
\* changed steamid64.txt last
PrefByWorker(j) == prefBy.who = "worker" /\ prefBy.j = j

FileByWorker(j) == fileBy.who = "worker" /\ fileBy.j = j

Last(s) == s[Len(s)]

\* C12 as claimed: the identifier a login worker stores in the preferences and
\* in the file is the one of the earliest matching line of its output.
C12_FirstMatchWins ==
    \A j \in Jobs :
        /\ PrefByWorker(j) => steamid64 = Head(IdsIn(out[j]))
        /\ FileByWorker(j) => file = FileOf(Head(IdsIn(out[j])) \o linesep)

\* C12 amended: the identifier a login worker stores in the preferences and
\* in the file is the one of the latest matching line of its output.
C12_LastMatchWins ==
    \A j \in Jobs :
        /\ PrefByWorker(j) => steamid64 = Last(IdsIn(out[j]))
        /\ FileByWorker(j) => file = FileOf(Last(IdsIn(out[j])) \o linesep)

\* C12 witness: a login worker read a line with 76561198012345678 and then a
\* line with 76561198087654321, and stored the second in both places.
C12_Witness ==
    \E j \in Jobs :
        /\ kind[j] = "login"
        /\ wpc[j] = "done"
        /\ out[j] = <<L_AcceptedA, L_WaitingB>>
        /\ PrefByWorker(j)
        /\ FileByWorker(j)
        /\ steamid64 = IdB
        /\ read_steamid64_from_file(file) = IdB

\* how many entries of the log are the line `msg`
CountIn(log, msg) == Cardinality({i \in 1..Len(log) : log[i] = msg})

\* the log was not cleared since job j was started: j is the latest job
\* started and no operator is between its clear and its start
LatestJob(j) == cur = j /\ ui.pc \notin {"login_start", "build_start"}

\* C13, the worker's part: a worker whose Popen raised has ended, left ok
\* false, read nothing and not touched the identifier store, and the log of
\* its job holds the "Failed to start steamcmd" line.
C13_WorkerPart ==
    \A j \in Jobs :
        proc[j] = "failed" =>
            /\ wpc[j] = "done"
            /\ ~worker_done[j].ok
            /\ out[j] = <<>>
            /\ returncode[j] = -1
            /\ wrote[j] = "none"
            /\ ~PrefByWorker(j)
            /\ ~FileByWorker(j)
            /\ LatestJob(j) => CountIn(status_lines, MsgFailedStart) >= 1

\* C13: the worker's part, with exactly one "Failed to start steamcmd" line in
\* the job's log, and the job then completes through its poller as an
\* unsuccessful job: when the program can take no further step by itself, the
\* poller of the job has returned None, with the running flag false and, for
\* a login job, the failure line in the job's log.
C13_PopenFailure ==
    /\ C13_WorkerPart
    /\ \A j \in Jobs :
          proc[j] = "failed" =>
              /\ LatestJob(j) => CountIn(status_lines, MsgFailedStart) = 1
              /\ Quiescent =>
                    /\ timer[j] = "stopped"
                    /\ ~worker_done[j].running
                    /\ (LatestJob(j) /\ kind[j] = "login")
                          => CountIn(status_lines, MsgLoginFailed) = 1

\* C14: when the worker of a new job is started the log is empty and the
\* flags are {ok: false, running: true}; and every step of a job's worker or
\* poller that puts a line into the log belongs to the most recently started
\* job.
C14_OnlyLatestJobLogs ==
    [][\A j \in Jobs :
          /\ (wpc[j] = "idle" /\ wpc'[j] # "idle")
                => /\ status_lines' = <<>>
                   /\ cur' = j
                   /\ worker_done'[cur'] = NewDoneFlag
          /\ (/\ wpc[j] # "idle"
              /\ (wpc'[j] # wpc[j] \/ timer'[j] # timer[j])
              /\ Len(status_lines') > Len(status_lines))
                => cur = j]_vars

\* job j is the only job started so far and the log was not cleared since
SingleJob(j) == LatestJob(j) /\ \A k \in Jobs \ {j} : kind[k] = "none"

\* the last n entries of s, in order
LastN(s, n) == SubSeq(s, IF Len(s) > n THEN Len(s) - n + 1 ELSE 1, Len(s))

\* a line as read from proc.stdout, without its line terminator
Chomp(line) ==
    IF line # <<>> /\ Last(line) = "\n" THEN SubSeq(line, 1, Len(line) - 1) ELSE line

\* the worker of job j has consumed every line it has read
Consumed(j) == proc[j] \in {"running", "exited"} /\ wpc[j] # "trim"

\* the login poller of the single job j took its failure branch
PollerReportedFailure(j) ==
    kind[j] = "login" /\ timer[j] = "stopped" /\ ~worker_done[j].ok

\* C15 as claimed: for a single job whose worker has consumed n lines, the
\* log is exactly the last min(n, 50) of those lines, in order.
C15_LogIsTailOfLines ==
    \A j \in Jobs :
        (SingleJob(j) /\ Consumed(j))
            => status_lines = LastN([i \in 1..Len(out[j]) |-> Chomp(out[j][i])], tail_limit)

\* C15 amended: for a single job whose worker has consumed n lines, the log
\* is exactly the last min(n, 50) of those lines, each without its trailing
\* whitespace, in order, followed by the failure line once the login poller
\* has taken its failure branch.
C15_LogIsTailOfStrippedLines ==
    \A j \in Jobs :
        (SingleJob(j) /\ Consumed(j))
            => status_lines =
                  LastN([i \in 1..Len(out[j]) |-> RStrip(out[j][i])], tail_limit)
                  \o (IF PollerReportedFailure(j) THEN <<MsgLoginFailed>> ELSE <<>>)

\* C15 witness: a single job has consumed 52 lines, the last of them "Logged
\* in OK"; the log holds 50 entries, the last of them that line.
C15_Witness ==
    \E j \in Jobs :
        /\ SingleJob(j)
        /\ Consumed(j)
        /\ Len(out[j]) = tail_limit + MaxOut
        /\ Last(out[j]) = L_LoggedIn
        /\ Len(status_lines) = tail_limit
        /\ Last(status_lines) = S_LoggedInOK

\* this step is the invocation in which the login poller of job j finds the
\* running flag set and its worker finished, and takes its branch
LoginPollerDecides(j) ==
    /\ kind[j] = "login"
    /\ ui.pc = "idle"
    /\ timer[j] = "registered"
    /\ \/ timer'[j] # "registered"
       \/ (ui'.pc = "poll_readfile" /\ ui'.j = j)

\* C16: when the poller of a login job takes its branch, the flags it reads
\* are the ones of its own job, whose worker has finished, and it appends
\* "Login did not complete successfully." (once) exactly if that job's worker
\* left ok false.
C16_PollerReadsOwnResult ==
    [][\A j \in Jobs :
          LoginPollerDecides(j)
              => /\ cur = j
                 /\ ~Alive(j)
                 /\ IF worker_done[j].ok
                    THEN status_lines' = status_lines
                    ELSE status_lines' = Append(status_lines, MsgLoginFailed)]_vars

\* the candidate files tx hold a match, and id is the first match of the
\* first candidate that holds one
FirstHitIs(id) ==
    \E i \in 1..Len(tx) :
        /\ Hit(tx[i])
        /\ \A k \in 1..(i - 1) : ~Hit(tx[k])
        /\ id = Head(FindAll(tx[i].text))

NoHit == \A i \in 1..Len(tx) : ~Hit(tx[i])

\* C17, the result: Detect ends FINISHED with steamid64 the first match of
\* the first candidate that holds one, or CANCELLED, no candidate holding a
\* match, with neither steamid64 nor the file modified.
C17_Result ==
    /\ detect_result = "FINISHED" => FirstHitIs(steamid64)
    /\ detect_result = "CANCELLED"
          => /\ NoHit
             /\ prefBy.who = "init"
             /\ fileBy.who = "init"
    /\ detect_result = "none" => (ui.pc = "detect_write" \/ detectsLeft > 0)

\* C17 as claimed: the result, and on FINISHED the file holds the value too.
C17_DetectSetsBoth ==
    /\ C17_Result
    /\ detect_result = "FINISHED" => read_steamid64_from_file(file) = steamid64

\* C17 amended: the result, and on FINISHED the file holds the value too
\* unless its write failed.
C17_DetectSetsBothUnlessWriteFails ==
    /\ C17_Result
    /\ (detect_result = "FINISHED" /\ fileBy.who = "detect")
          => file = FileOf(steamid64 \o linesep)
    /\ (detect_result = "FINISHED" /\ fileBy.who # "detect")
          => fileBy.who \in {"init", "failed"}

\* C17 witness: the first candidate is missing, the second holds
\* 76561198087654321 and then 76561198012345678, the third holds
\* 76561198012345678; Detect ended FINISHED with 76561198087654321 in both.
C17_Witness ==
    /\ st = "cands"
    /\ tx[1].st = "missing"
    /\ tx[2] = [st |-> "text", text |-> V_BA]
    /\ tx[3] = [st |-> "text", text |-> V_A]
    /\ detect_result = "FINISHED"
    /\ steamid64 = IdB
    /\ read_steamid64_from_file(file) = IdB
    /\ fileBy.who = "detect"

\* no operation that writes the identifier is in progress: no handler runs
\* on the UI thread and no login worker is between its write of the file and
\* its assignment of the preference
NoWriterInProgress == ui.pc = "idle" /\ \A j \in Jobs : wpc[j] # "set_pref"

\* C18: whenever no operation that writes the identifier is in progress and
\* the add-on has set the preference or written the file, with no write
\* having failed, steamid64 equals the content of the file.
C18_PrefEqualsFile ==
    (/\ NoWriterInProgress
     /\ (prefBy.who # "init" \/ fileBy.who # "init")
     /\ fileBy.who # "failed"
     /\ \A j \in Jobs : wrote[j] # "failed")
        => steamid64 = read_steamid64_from_file(file)

\* job j's worker called write_steamid64_to_file or assigned steamid64
WorkerStored(j) == wrote[j] # "none" \/ PrefByWorker(j) \/ FileByWorker(j)

\* C19 as claimed: a login worker overwrites the identifier file or steamid64
\* only if it left ok true.
C19_StoresOnlyIfOk ==
    \A j \in Jobs : WorkerStored(j) => worker_done[j].ok

\* C19 amended: a login worker overwrites the identifier file and steamid64
\* exactly if its output held a matching identifier, whatever ok is.
C19_StoresWhateverOk ==
    \A j \in Jobs :
        /\ WorkerStored(j) => (kind[j] = "login" /\ IdsIn(out[j]) # <<>>)
        /\ (kind[j] = "login" /\ wpc[j] = "done" /\ proc[j] = "exited" /\ wrote[j] = "none")
              => IdsIn(out[j]) = <<>>

\* C19 witness: a login worker whose process printed "Accepted login for
\* 76561198012345678" and no success marker has finished with ok false, and
\* the file and steamid64 hold that identifier.
C19_Witness ==
    \E j \in Jobs :
        /\ kind[j] = "login"
        /\ wpc[j] = "done"
        /\ out[j] = <<L_AcceptedA>>
        /\ ~worker_done[j].ok
        /\ PrefByWorker(j)
        /\ FileByWorker(j)
        /\ steamid64 = IdA
        /\ file = FileOf(IdA \o linesep)

====
